---- MODULE Spec2Model ----
(***************************************************************************)
(* SCD Type-2 maintenance of the customer dimension table                  *)
(* (jobs/dim_customers_scd.py) over a Delta table, with the Spark SQL      *)
(* three-valued logic of its filters and of the Delta merge condition.     *)
(***************************************************************************)
EXTENDS Integers, Sequences, FiniteSets, TLC

(***************************************************************************)
(* Bounds of the model.                                                    *)
(***************************************************************************)
\* Reconciler runs in one behaviour.
MaxRuns == 4

(***************************************************************************)
(* SQL values.  Every column of the schema is nullable                     *)
(* (db_utils.get_metadata: StructField(..., True)), so a column value is   *)
(* either Null or Some(v).  A boolean SQL expression evaluates to "true",  *)
(* "false" or "null"; a filter, a join condition and a merge condition     *)
(* keep a row only when the expression is "true".                          *)
(***************************************************************************)
Null == <<>>

Some(v) == <<v>>

\* col(a) == col(b), and "a = b" of the merge condition
SqlEq(a, b) ==
    IF a = Null \/ b = Null THEN "null"
    ELSE IF a = b THEN "true" ELSE "false"

\* col(a) != col(b)
SqlNe(a, b) ==
    IF a = Null \/ b = Null THEN "null"
    ELSE IF a # b THEN "true" ELSE "false"

\* p1 | p2 | ... (Kleene disjunction of the listed values)
SqlOr(ps) ==
    IF "true" \in ps THEN "true"
    ELSE IF "null" \in ps THEN "null" ELSE "false"

\* p1 & p2 & ..., and the AND of the merge condition (Kleene conjunction)
SqlAnd(ps) ==
    IF "false" \in ps THEN "false"
    ELSE IF "null" \in ps THEN "null" ELSE "true"

\* col(a).isNotNull()
IsNotNull(a) == IF a = Null THEN "false" ELSE "true"

\* col(a).isNull()
IsNull(a) == IF a = Null THEN "true" ELSE "false"

(***************************************************************************)
(* Rows.  A source record carries the seven source columns; the three      *)
(* validity columns the job adds as lit(None) are never read again (every  *)
(* select takes them from tgt or from a literal).                          *)
(***************************************************************************)
\* to_date(lit("9999-12-31"), "yyyy-MM-dd"), as yyyymmdd
Sentinel == 99991231

\* the dimension schema: one row of dim_customers_scd
Row(id, fn, ln, em, ph, n, u, s, e, a) ==
    [customer_id |-> id, first_name |-> fn, last_name |-> ln, email |-> em,
     phone |-> ph, number_of_orders |-> n, updated_at |-> u,
     effective_start_date |-> s, effective_end_date |-> e, is_active |-> a]

\* a record of the batch, after createDataFrame/withColumn/cast_to_schema
SrcRow(id, fn, ln, em, ph, n, u) ==
    Row(id, fn, ln, em, ph, n, u, Null, Null, Null)

\* the right side of a left-join row with no partner: every column null
NullRow == Row(Null, Null, Null, Null, Null, Null, Null, Null, Null, Null)

\* the dates the job can run on (datetime.now(timezone.utc), as yyyymmdd)
RunDates == {20240101, 20240601}

\* the customer records the extract delivers in this model: customer 1 with
\* one to three orders and a phone number, or with two or three orders and
\* no phone number; customer 2.  updated_at grows with the order count.
SourceRecords ==
    { SrcRow(Some(1), Some("Alice"), Some("Smith"), Some("alice@example.com"),
             Some("555"), Some(n), Some(n)) : n \in {1, 2, 3} }
    \cup
    { SrcRow(Some(1), Some("Alice"), Some("Smith"), Some("alice@example.com"),
             Null, Some(n), Some(n)) : n \in {2, 3} }
    \cup
    { SrcRow(Some(2), Some("Bob"), Some("Jones"), Some("bob@example.com"),
             Some("556"), Some(1), Some(1)) }

\* a batch: at most one record per customer, in customer_id order
Batches ==
    {<<>>}
    \cup { <<r>> : r \in SourceRecords }
    \cup { <<r, q>> : r \in {x \in SourceRecords : x.customer_id = Some(1)},
                      q \in {x \in SourceRecords : x.customer_id = Some(2)} }

(***************************************************************************)
(* Sequence helper.                                                        *)
(***************************************************************************)
RECURSIVE Flatten(_)
Flatten(ss) == IF ss = <<>> THEN <<>> ELSE Head(ss) \o Flatten(Tail(ss))

(***************************************************************************)
(* dim_customers_scd_etl_job: the computation of the changeset.            *)
(***************************************************************************)
\* delta_table.toDF().filter(col("is_active") == True)
DeltaDf(tbl) == SelectSeq(tbl, LAMBDA t : SqlEq(t.is_active, Some(TRUE)) = "true")

\* new_df_casted.join(delta_df, tgt.customer_id == src.customer_id, "left")
Joined(batch, tbl) ==
    LET delta_df == DeltaDf(tbl)
        rowsOf(s) ==
            LET partners ==
                    SelectSeq(delta_df,
                              LAMBDA t : SqlEq(t.customer_id, s.customer_id) = "true")
            IN IF partners = <<>>
               THEN << [src |-> s, tgt |-> NullRow] >>
               ELSE [j \in 1..Len(partners) |-> [src |-> s, tgt |-> partners[j]]]
    IN Flatten([i \in 1..Len(batch) |-> rowsOf(batch[i])])

\* the filter of updated_new_records and of updated_old_records
ChangeDetected(src, tgt) ==
    SqlAnd({SqlEq(tgt.customer_id, src.customer_id),
            SqlOr({SqlNe(tgt.first_name, src.first_name),
                   SqlNe(tgt.last_name, src.last_name),
                   SqlNe(tgt.email, src.email),
                   SqlNe(tgt.phone, src.phone),
                   SqlNe(tgt.number_of_orders, src.number_of_orders)})})

\* the new version of a changed key
UpdatedNewRecords(joined, date) ==
    LET kept == SelectSeq(joined, LAMBDA j : ChangeDetected(j.src, j.tgt) = "true")
    IN [i \in 1..Len(kept) |->
           Row(kept[i].src.customer_id, kept[i].src.first_name,
               kept[i].src.last_name, kept[i].src.email, kept[i].src.phone,
               kept[i].src.number_of_orders, kept[i].src.updated_at,
               Some(date), Some(Sentinel), Some(TRUE))]

\* closed versions that keep the end date of the row they close
UpdatedOldRecordsKeepEnd(joined, date) ==
    LET kept == SelectSeq(joined, LAMBDA j : ChangeDetected(j.src, j.tgt) = "true")
    IN [i \in 1..Len(kept) |->
           Row(kept[i].tgt.customer_id, kept[i].tgt.first_name,
               kept[i].tgt.last_name, kept[i].tgt.email, kept[i].tgt.phone,
               kept[i].tgt.number_of_orders, kept[i].tgt.updated_at,
               kept[i].tgt.effective_start_date, kept[i].tgt.effective_end_date,
               Some(FALSE))]

\* the closed version of a changed key
UpdatedOldRecords(joined, date) ==
    LET kept == SelectSeq(joined, LAMBDA j : ChangeDetected(j.src, j.tgt) = "true")
    IN [i \in 1..Len(kept) |->
           Row(kept[i].tgt.customer_id, kept[i].tgt.first_name,
               kept[i].tgt.last_name, kept[i].tgt.email, kept[i].tgt.phone,
               kept[i].tgt.number_of_orders, kept[i].tgt.updated_at,
               kept[i].tgt.effective_start_date, Some(date), Some(FALSE))]

\* the filter of new_records
IsNewKey(src, tgt) ==
    SqlAnd({IsNotNull(src.customer_id), IsNull(tgt.customer_id)})

\* the first version of a key with no active row
NewRecords(joined, date) ==
    LET kept == SelectSeq(joined, LAMBDA j : IsNewKey(j.src, j.tgt) = "true")
    IN [i \in 1..Len(kept) |->
           Row(kept[i].src.customer_id, kept[i].src.first_name,
               kept[i].src.last_name, kept[i].src.email, kept[i].src.phone,
               kept[i].src.number_of_orders, kept[i].src.updated_at,
               Some(date), Some(Sentinel), Some(TRUE))]

\* updated_old_records.union(updated_new_records).union(new_records)
FinalChanges(batch, tbl, date) ==
    LET joined == Joined(batch, tbl)
    IN UpdatedOldRecords(joined, date)
           \o UpdatedNewRecords(joined, date)
           \o NewRecords(joined, date)

(***************************************************************************)
(* The Delta merge: whenMatchedUpdateAll / whenNotMatchedInsertAll.        *)
(***************************************************************************)
\* the merge condition
MergeCondition(t, s) ==
    SqlAnd({SqlEq(t.customer_id, s.customer_id),
            SqlEq(t.email, s.email),
            SqlEq(t.first_name, s.first_name),
            SqlEq(t.last_name, s.last_name),
            SqlEq(t.phone, s.phone),
            SqlEq(t.number_of_orders, s.number_of_orders)})

\* for every target row, the source rows that match it
MergeMatches(tbl, source) ==
    [i \in 1..Len(tbl) |->
        {j \in 1..Len(source) : MergeCondition(tbl[i], source[j]) = "true"}]

\* Delta refuses a merge in which several source rows match one target row
MergeConflict(tbl, source) ==
    LET matches == MergeMatches(tbl, source)
    IN \E i \in 1..Len(tbl) : Cardinality(matches[i]) > 1

\* a merge whose matched clause deletes the target row instead of updating it
MergeDeleteMatched(tbl, source) ==
    LET matches == MergeMatches(tbl, source)
        kept == SelectSeq([i \in 1..Len(tbl) |-> <<i, tbl[i]>>],
                          LAMBDA p : matches[p[1]] = {})
    IN [i \in 1..Len(kept) |-> kept[i][2]]
       \o SelectSeq(source, LAMBDA q : \A i \in 1..Len(tbl) :
                                          MergeCondition(tbl[i], q) # "true")

\* a merge without its whenMatchedUpdateAll clause acting in place: every
\* changeset row is appended
MergeInsertAll(tbl, source) == tbl \o source

\* matched target rows take every column of their source row, in place;
\* source rows that match no target row are appended in changeset order
Merge(tbl, source) ==
    LET matches == MergeMatches(tbl, source)
        updated ==
            [i \in 1..Len(tbl) |->
                IF matches[i] = {} THEN tbl[i]
                ELSE source[CHOOSE j \in matches[i] : TRUE]]
        matched == UNION {matches[i] : i \in 1..Len(tbl)}
        unmatched == {j \in 1..Len(source) : j \notin matched}
        inserted ==
            IF unmatched = {} THEN <<>>
            ELSE LET F[k \in 0..Len(source)] ==
                         IF k = 0 THEN <<>>
                         ELSE IF k \in unmatched THEN Append(F[k - 1], source[k])
                         ELSE F[k - 1]
                 IN F[Len(source)]
    IN updated \o inserted

\* a check that finds a Delta table at any path
IsDeltaTableAlways(exists) == TRUE

\* DeltaTable.isDeltaTable(spark, delta_table_path)
IsDeltaTable(exists) == exists

\* a job that never takes the empty-batch exit
IsEmptyBatchNever(batch) == FALSE

\* new_data == []
IsEmptyBatch(batch) == batch = <<>>

(***************************************************************************)
(* State.                                                                  *)
(***************************************************************************)
VARIABLES
    tableExists,    \* DeltaTable.isDeltaTable(spark, delta_table_path)
    table,          \* the rows stored in dim_customers_scd, by position
    today,          \* the UTC date of the clock, as yyyymmdd
    runs,           \* Reconciler runs so far
    new_data,       \* the batch of the last run
    final_changes,  \* the changeset of the last run
    trace,          \* the collaborator calls of the last run, in order
    result,         \* how the last run ended: "none", "returned", "raised"
    pair,           \* a joined row [src, tgt] given to the change filter
    verdict,        \* what the change filter made of it, "unset" before
    crawler,        \* how the last job's start of its crawler went
    future_orders,  \* the rows stored in the future_orders extract table
    overwritten,    \* the rows the last save of the extract replaced
    extracts,       \* future_orders_etl_job runs so far
    query_outcome,  \* how the upstream query of the last extract run went
    sessions        \* the Reconciler runs in flight, one per driver

vars == <<tableExists, table, today, runs, new_data, final_changes, trace, result,
          pair, verdict, crawler, future_orders, overwritten, extracts,
          query_outcome, sessions>>

\* the drivers that can run the Reconciler at the same time
Drivers == {1, 2}

\* a driver with no run in flight
Idle == [pc |-> "idle", new_data |-> <<>>, delta_snapshot |-> <<>>, date |-> 0,
         overtaken |-> FALSE, result |-> "none"]

Init ==
    /\ tableExists = FALSE
    /\ table = <<>>
    /\ today = 20240101
    /\ runs = 0
    /\ new_data = <<>>
    /\ final_changes = <<>>
    /\ trace = <<>>
    /\ result = "none"
    /\ pair = [src |-> NullRow, tgt |-> NullRow]
    /\ verdict = "unset"
    /\ crawler = "not_called"
    /\ future_orders = <<>>
    /\ overwritten = <<>>
    /\ extracts = 0
    /\ query_outcome = "none"
    /\ sessions = [d \in Drivers |-> Idle]

\* db_utils.create_delta_table: an empty table with the schema
CreateDeltaTable ==
    /\ ~tableExists
    /\ tableExists' = TRUE
    /\ table' = <<>>
    /\ UNCHANGED <<today, runs, new_data, final_changes, trace, result,
                   pair, verdict, crawler, future_orders, overwritten, extracts,
                   query_outcome, sessions>>

\* what boto3's start_crawler can do: start the crawler, find it running, or
\* fail in any other way; or the client cannot be built at all
CrawlerOutcomes == {"started", "already_running", "start_failed", "client_failed"}

\* a run_glue_crawler without its `except Exception` clause
RunGlueCrawlerUncaught(outcome) ==
    IF outcome \in {"start_failed", "client_failed"} THEN "raised" ELSE "returned"

\* db_utils.run_glue_crawler: how the call ends.  Both except clauses print
\* and return; only boto3.client, outside the try, can raise
RunGlueCrawler(outcome) ==
    IF outcome = "client_failed" THEN "raised" ELSE "returned"

\* dim_customers_scd_etl_job on `date`, the extract returning `batch` and the
\* start of the crawler going as `outcome`
DimCustomersScdRun(batch, date, outcome) ==
    /\ date >= today
    /\ today' = date
    /\ runs' = runs + 1
    /\ UNCHANGED <<tableExists, pair, verdict, future_orders, overwritten,
                   extracts, query_outcome, sessions>>
    /\ IF ~IsDeltaTable(tableExists)
       THEN \* raise Exception("Delta Table does NOT exists!")
            /\ trace' = <<"isDeltaTable">>
            /\ result' = "raised"
            /\ new_data' = <<>>
            /\ final_changes' = <<>>
            /\ crawler' = "not_called"
            /\ UNCHANGED table
       ELSE IF IsEmptyBatch(batch)
       THEN \* "Nothing to write!": return
            /\ trace' = <<"isDeltaTable", "collect_customer_data">>
            /\ result' = "returned"
            /\ new_data' = batch
            /\ final_changes' = <<>>
            /\ crawler' = "not_called"
            /\ UNCHANGED table
       ELSE LET changes == FinalChanges(batch, table, date) IN
            /\ new_data' = batch
            /\ final_changes' = changes
            /\ IF MergeConflict(table, changes)
               THEN \* the merge raises and commits nothing
                    /\ trace' = <<"isDeltaTable", "collect_customer_data", "merge">>
                    /\ result' = "raised"
                    /\ crawler' = "not_called"
                    /\ UNCHANGED table
               ELSE /\ table' = Merge(table, changes)
                    /\ trace' = <<"isDeltaTable", "collect_customer_data", "merge",
                                  "run_glue_crawler">>
                    /\ crawler' = outcome
                    /\ result' = RunGlueCrawler(outcome)

\* one run of the Reconciler on its own, its crawler starting
DimCustomersScdEtlJob(batch, date) ==
    /\ runs < MaxRuns
    /\ DimCustomersScdRun(batch, date, "started")

Next ==
    \/ CreateDeltaTable
    \/ \E batch \in Batches, date \in RunDates : DimCustomersScdEtlJob(batch, date)

Spec == Init /\ [][Next]_vars

(***************************************************************************)
(* future_orders_etl_job: the query over bmd.orders and the dimension, the *)
(* overwrite of the extract table and the crawler.                         *)
(***************************************************************************)
MaxJobs == 3

\* a row of bmd.orders, the columns the query reads; pickup_date is a
\* timestamp, as yyyymmddhh
Order(name, status, id, draft, theme, flavor, allergies, pickup) ==
    [order_name |-> name, financial_status |-> status, customer_id |-> id,
     draft_type |-> draft, theme |-> theme, flavor |-> flavor,
     allergies |-> allergies, pickup_date |-> pickup]

\* bmd.orders in this model: orders of customers 1 and 2 picked up between
\* and after the run dates, one on a run date, one of a customer the
\* dimension never holds, one without customer and one without pickup date
Orders ==
    << Order(Some("#1006"), Some("paid"), Some(2), Some("cake"), Some("space"),
             Some("lemon"), Null, Some(2024090109)),
       Order(Some("#1001"), Some("paid"), Some(1), Some("cake"), Some("jungle"),
             Some("vanilla"), Some("nuts"), Some(2024030109)),
       Order(Some("#1002"), Some("pending"), Some(1), Some("cupcakes"), Null,
             Some("chocolate"), Null, Some(2024090109)),
       Order(Some("#1003"), Some("paid"), Some(1), Some("cake"), Some("jungle"),
             Some("vanilla"), Null, Some(2024060110)),
       Order(Some("#1004"), Some("paid"), Some(3), Some("cake"), Null,
             Some("vanilla"), Null, Some(2024090109)),
       Order(Some("#1005"), Some("paid"), Null, Some("cake"), Null,
             Some("vanilla"), Null, Some(2024090109)),
       Order(Some("#1007"), Some("paid"), Some(1), Some("cake"), Null,
             Some("vanilla"), Null, Null),
       Order(Some("#1000"), Some("paid"), Some(1), Some("cake"), Null,
             Some("vanilla"), Null, Some(2023120109)) >>

\* SQL >: null when either side is null
SqlGt(a, b) ==
    IF a = Null \/ b = Null THEN "null"
    ELSE IF a[1] > b[1] THEN "true" ELSE "false"

\* current_date as a timestamp: midnight of the day
CurrentDate(date) == Some(date * 100)

\* SELECT * FROM bmd.orders WHERE pickup_date > current_date
FutureOrders(orders, date) ==
    SelectSeq(orders, LAMBDA o : SqlGt(o.pickup_date, CurrentDate(date)) = "true")

\* SELECT * FROM bmd.dim_customers_scd WHERE is_active = true
ActiveCustomers(tbl) ==
    SelectSeq(tbl, LAMBDA c : SqlEq(c.is_active, Some(TRUE)) = "true")

\* the SELECT list of the query
Projection(c, o) ==
    [order_name |-> o.order_name, first_name |-> c.first_name,
     financial_status |-> o.financial_status, draft_type |-> o.draft_type,
     theme |-> o.theme, flavor |-> o.flavor, allergies |-> o.allergies,
     pickup_date |-> o.pickup_date]

\* ORDER BY o.pickup_date, rows of equal pickup_date in the order they came
OrderByPickupDate(rows) ==
    LET Place(sorted, x) ==
            LET before == Cardinality({k \in 1..Len(sorted) :
                              sorted[k].pickup_date[1] <= x.pickup_date[1]})
            IN SubSeq(sorted, 1, before) \o <<x>>
               \o SubSeq(sorted, before + 1, Len(sorted))
        S[k \in 0..Len(rows)] ==
            IF k = 0 THEN <<>> ELSE Place(S[k - 1], rows[k])
    IN S[Len(rows)]

\* the query of future_orders_etl_job
FutureOrdersQuery(orders, tbl, date) ==
    LET o == FutureOrders(orders, date)
        c == ActiveCustomers(tbl)
        joined ==
            Flatten([i \in 1..Len(c) |->
                LET partners == SelectSeq(o, LAMBDA r :
                                    SqlEq(c[i].customer_id, r.customer_id) = "true")
                IN [k \in 1..Len(partners) |-> Projection(c[i], partners[k])]])
    IN OrderByPickupDate(joined)

\* how run_query_from_redshift and the evaluation of its DataFrame can go:
\* the load raises, or the read raises while the save runs
QueryOutcomes == {"ok", "fails_at_load", "fails_at_save"}

\* a save that appends to the table
SaveAppend(old, rows, query) ==
    IF query = "fails_at_save" THEN old ELSE old \o rows

\* a save that empties the table before it writes
SaveInPlace(old, rows, query) ==
    IF query = "fails_at_save" THEN <<>> ELSE rows

\* write.format("delta").mode("overwrite").save: the new content replaces the
\* old in one commit; a write that fails commits nothing
SaveOverwrite(old, rows, query) ==
    IF query = "fails_at_save" THEN old ELSE rows

\* one run of future_orders_etl_job on `date`
FutureOrdersEtlJob(date, query, outcome) ==
    /\ date >= today
    /\ today' = date
    /\ extracts' = extracts + 1
    /\ UNCHANGED <<tableExists, table, runs, new_data, final_changes, pair,
                   verdict, sessions>>
    /\ IF query = "fails_at_load" \/ ~tableExists
       THEN \* run_query_from_redshift raises
            /\ query_outcome' = "fails_at_load"
            /\ trace' = <<"run_query_from_redshift">>
            /\ result' = "raised"
            /\ crawler' = "not_called"
            /\ UNCHANGED <<future_orders, overwritten>>
       ELSE /\ query_outcome' = query
            /\ future_orders' =
                  SaveOverwrite(future_orders,
                                FutureOrdersQuery(Orders, table, date), query)
            /\ IF query = "fails_at_save"
               THEN \* save raises
                    /\ trace' = <<"run_query_from_redshift", "save">>
                    /\ result' = "raised"
                    /\ crawler' = "not_called"
                    /\ UNCHANGED overwritten
               ELSE /\ overwritten' = future_orders
                    /\ trace' = <<"run_query_from_redshift", "save",
                                  "run_glue_crawler">>
                    /\ crawler' = outcome
                    /\ result' = RunGlueCrawler(outcome)

\* the batches of the pipeline runs: customers 1 and 2 arrive, customer 1
\* changes
PipelineBatches ==
    {b \in Batches :
        /\ b # <<>>
        /\ b[1].phone # Null
        /\ b[1].number_of_orders \in {Some(1), Some(2)}
        /\ Len(b) = 2 <=> b[1].number_of_orders = Some(1)}

ReconcilerInPipeline ==
    \E batch \in PipelineBatches, date \in RunDates, outcome \in CrawlerOutcomes :
        /\ runs + extracts < MaxJobs
        /\ DimCustomersScdRun(batch, date, outcome)

ExtractInPipeline ==
    \E date \in RunDates, query \in QueryOutcomes, outcome \in CrawlerOutcomes :
        /\ runs + extracts < MaxJobs
        /\ FutureOrdersEtlJob(date, query, outcome)

NextPipeline ==
    \/ CreateDeltaTable
    \/ ReconcilerInPipeline
    \/ ExtractInPipeline

SpecPipeline == Init /\ [][NextPipeline]_vars

(***************************************************************************)
(* Two drivers running dim_customers_scd_etl_job at the same time.  A run  *)
(* reads the table when it builds delta_df and the join (lines 40-45) and  *)
(* writes it when the merge executes (line 127); the merge is one commit.  *)
(* Another driver's commit can fall between the two.                       *)
(***************************************************************************)
\* the batches of the concurrent runs: customer 1 with a phone number
ConcurrentBatches ==
    {b \in Batches : Len(b) = 1 /\ b[1].customer_id = Some(1) /\ b[1].phone # Null}

\* a run that joins against the table as it is when the merge executes
DeltaSnapshotAtMerge(read, current) == current

\* the rows the join of a run sees: the table as the run read it
DeltaSnapshot(read, current) == read

\* lines 11-45 of a run of driver d: the checks, the extract, the read
StartRun(d, batch, date) ==
    /\ sessions[d].pc = "idle"
    /\ runs < MaxRuns
    /\ date >= today
    /\ today' = date
    /\ runs' = runs + 1
    /\ UNCHANGED <<tableExists, table, pair, verdict, future_orders, overwritten,
                   extracts, query_outcome>>
    /\ new_data' = IF IsDeltaTable(tableExists) THEN batch ELSE <<>>
    /\ final_changes' = <<>>
    /\ crawler' = "not_called"
    /\ IF ~IsDeltaTable(tableExists)
       THEN /\ trace' = <<"isDeltaTable">>
            /\ result' = "raised"
            /\ sessions' = [sessions EXCEPT ![d] =
                               [Idle EXCEPT !.pc = "done", !.date = date,
                                            !.result = "raised"]]
       ELSE IF IsEmptyBatch(batch)
       THEN /\ trace' = <<"isDeltaTable", "collect_customer_data">>
            /\ result' = "returned"
            /\ sessions' = [sessions EXCEPT ![d] =
                               [Idle EXCEPT !.pc = "done", !.date = date,
                                            !.result = "returned"]]
       ELSE /\ trace' = <<"isDeltaTable", "collect_customer_data">>
            /\ result' = "none"
            /\ sessions' = [sessions EXCEPT ![d] =
                               [pc |-> "joined", new_data |-> batch,
                                delta_snapshot |-> table, date |-> date,
                                overtaken |-> FALSE, result |-> "none"]]

\* lines 47-131 of the run of driver d: the changeset, the merge, the crawler
ExecuteMerge(d) ==
    /\ sessions[d].pc = "joined"
    /\ UNCHANGED <<tableExists, today, runs, pair, verdict, future_orders,
                   overwritten, extracts, query_outcome>>
    /\ LET run == sessions[d]
           changes == FinalChanges(run.new_data,
                                   DeltaSnapshot(run.delta_snapshot, table),
                                   run.date)
           raises == MergeConflict(table, changes)
       IN /\ new_data' = run.new_data
          /\ final_changes' = changes
          /\ IF raises
             THEN /\ trace' = <<"isDeltaTable", "collect_customer_data", "merge">>
                  /\ result' = "raised"
                  /\ crawler' = "not_called"
                  /\ UNCHANGED table
             ELSE /\ table' = Merge(table, changes)
                  /\ trace' = <<"isDeltaTable", "collect_customer_data", "merge",
                                "run_glue_crawler">>
                  /\ crawler' = "started"
                  /\ result' = RunGlueCrawler("started")
          /\ sessions' =
                [e \in Drivers |->
                    IF e = d
                    THEN [run EXCEPT !.pc = "done",
                                     !.result = IF raises THEN "raised"
                                                ELSE "returned"]
                    ELSE IF sessions[e].pc = "joined" /\ ~raises
                    THEN [sessions[e] EXCEPT !.overtaken = TRUE]
                    ELSE sessions[e]]

\* a run on its own, before any driver has started
SoloRun ==
    \E batch \in ConcurrentBatches, date \in RunDates :
        /\ \A d \in Drivers : sessions[d].pc = "idle"
        /\ runs < MaxRuns
        /\ DimCustomersScdRun(batch, date, "started")

NextConcurrent ==
    \/ CreateDeltaTable
    \/ SoloRun
    \/ \E d \in Drivers, batch \in ConcurrentBatches, date \in RunDates :
          StartRun(d, batch, date)
    \/ \E d \in Drivers : ExecuteMerge(d)

SpecConcurrent == Init /\ [][NextConcurrent]_vars

(***************************************************************************)
(* The change filter on its own: one joined row of the same customer, the  *)
(* source record against the active row, with every tracked column drawn   *)
(* from null and values, and updated_at and the validity columns varying.  *)
(***************************************************************************)
JoinedPairs ==
    [src : { SrcRow(Some(1), fn, ln, em, ph, n, u) :
                fn \in {Null, Some("Alice"), Some("Alicia")},
                ln \in {Null, Some("Smith"), Some("Smyth")},
                em \in {Null, Some("alice@example.com"), Some("al@example.com")},
                ph \in {Null, Some("555"), Some("556")},
                n \in {Null, Some(2), Some(3)},
                u \in {Some(1), Some(2)} },
     tgt : { Row(Some(1), fn, ln, em, ph, n, Some(1), Some(s), Some(Sentinel),
                 Some(TRUE)) :
                fn \in {Null, Some("Alice")},
                ln \in {Null, Some("Smith")},
                em \in {Null, Some("alice@example.com")},
                ph \in {Null, Some("555")},
                n \in {Null, Some(2)},
                s \in RunDates }]

InitChanged ==
    /\ tableExists = TRUE
    /\ table = <<>>
    /\ today = 20240101
    /\ runs = 0
    /\ new_data = <<>>
    /\ final_changes = <<>>
    /\ trace = <<>>
    /\ result = "none"
    /\ pair \in JoinedPairs
    /\ verdict = "unset"
    /\ crawler = "not_called"
    /\ future_orders = <<>>
    /\ overwritten = <<>>
    /\ extracts = 0
    /\ query_outcome = "none"
    /\ sessions = [d \in Drivers |-> Idle]

\* the filter of updated_new_records / updated_old_records applied to pair
EvaluateFilter ==
    /\ verdict = "unset"
    /\ verdict' = ChangeDetected(pair.src, pair.tgt)
    /\ UNCHANGED <<tableExists, table, today, runs, new_data, final_changes,
                   trace, result, pair, crawler, future_orders, overwritten,
                   extracts, query_outcome, sessions>>

NextChanged == EvaluateFilter

SpecChanged == InitChanged /\ [][NextChanged]_vars

(***************************************************************************)
(* Vocabulary of the properties.                                           *)
(***************************************************************************)
IsActive(r) == r.is_active = Some(TRUE)

TrackedColumns == {"first_name", "last_name", "email", "phone", "number_of_orders"}

\* some tracked attribute differs, a null against a value counting as a
\* difference
TrackedDiffer(r, q) == \E c \in TrackedColumns : r[c] # q[c]

\* the customer ids stored in tbl
KeysOf(tbl) == {tbl[i].customer_id : i \in 1..Len(tbl)}

\* the positions of the rows of customer id, and of its active rows
RowsOf(tbl, id) == {i \in 1..Len(tbl) : tbl[i].customer_id = id}

ActiveRowsOf(tbl, id) == {i \in RowsOf(tbl, id) : IsActive(tbl[i])}

\* row r closed on `date`: only is_active and effective_end_date change
Closed(r, date) ==
    [r EXCEPT !.is_active = Some(FALSE), !.effective_end_date = Some(date)]

\* the first version of source record s opened on `date`
Opened(s, date) ==
    [s EXCEPT !.effective_start_date = Some(date),
              !.effective_end_date = Some(Sentinel),
              !.is_active = Some(TRUE)]

\* this step is a Reconciler run that found the table and fetched a batch
RunStep == runs' = runs + 1 /\ tableExists

\* customer s.customer_id has active rows in tbl, and none of them differs
\* from batch record s in a tracked attribute
UnchangedKey(s, tbl) ==
    /\ ActiveRowsOf(tbl, s.customer_id) # {}
    /\ \A i \in ActiveRowsOf(tbl, s.customer_id) : ~TrackedDiffer(s, tbl[i])

\* the number of active rows of tbl
ActiveCount(tbl) == Cardinality({i \in 1..Len(tbl) : IsActive(tbl[i])})

\* the last run called the merge primitive
MergeCalled(tr) == \E k \in 1..Len(tr) : tr[k] = "merge"

(***************************************************************************)
(* C1.  Single-active invariant: every customer_id present in the table    *)
(* has exactly one row with is_active = true.                              *)
(***************************************************************************)
C1_SingleActive ==
    \A id \in KeysOf(table) : Cardinality(ActiveRowsOf(table, id)) = 1

(***************************************************************************)
(* C2.  No-op property: a run whose extracted batch is empty leaves the    *)
(* table as it was, calls no merge and returns normally.                   *)
(***************************************************************************)
C2_EmptyBatchNoOp ==
    [][(RunStep /\ new_data' = <<>>)
        => /\ table' = table
           /\ ~MergeCalled(trace')
           /\ result' = "returned"]_vars

\* C2's case: an empty batch met a table that holds rows, and the run returned
C2_Witness ==
    /\ tableExists
    /\ table # <<>>
    /\ runs > 1
    /\ new_data = <<>>
    /\ trace = <<"isDeltaTable", "collect_customer_data">>
    /\ result = "returned"

(***************************************************************************)
(* C3.  Closure correctness: when the batch record of a customer differs   *)
(* in a tracked attribute from the customer's active row, the run leaves   *)
(* that stored row, at its position, inactive with effective_end_date =    *)
(* run date and every other column as before, and appends no copy of it.   *)
(***************************************************************************)
C3_ClosureCorrectness ==
    [][RunStep
        => \A k \in 1..Len(new_data') :
             \A i \in ActiveRowsOf(table, new_data'[k].customer_id) :
               TrackedDiffer(new_data'[k], table[i])
                 => /\ i <= Len(table')
                    /\ table'[i] = Closed(table[i], today')
                    /\ \A m \in (Len(table) + 1)..Len(table') :
                          table'[m] # Closed(table[i], today')]_vars
(***************************************************************************)
(* C4.  Change-detection predicate: a joined pair of the same customer is  *)
(* treated as changed if and only if at least one tracked attribute        *)
(* differs, a null against a value counting as a difference; updated_at    *)
(* and the validity columns play no part.                                  *)
(***************************************************************************)
C4_ChangedIffTrackedDiffer ==
    verdict # "unset"
        => ((verdict = "true") <=> TrackedDiffer(pair.src, pair.tgt))
(***************************************************************************)
(* C5.  Historical-row immutability: once a stored row has is_active =     *)
(* false, no later run changes any column of it.                           *)
(***************************************************************************)
C5_HistoricalImmutable ==
    [][\A i \in 1..Len(table) :
         ~IsActive(table[i]) => (i <= Len(table') /\ table'[i] = table[i])]_vars

(***************************************************************************)
(* C6.  In the merge, every new-version row and every new-key row of the   *)
(* changeset (its is_active = true rows) matches no row stored before the  *)
(* run and is appended as an additional row.                               *)
(***************************************************************************)
C6_NewRowsAlwaysInserted ==
    [][(RunStep /\ MergeCalled(trace'))
        => \A j \in 1..Len(final_changes') :
             IsActive(final_changes'[j])
               => /\ \A i \in 1..Len(table) :
                        MergeCondition(table[i], final_changes'[j]) # "true"
                  /\ \E m \in (Len(table) + 1)..Len(table') :
                        table'[m] = final_changes'[j]]_vars

(***************************************************************************)
(* C7.  Unchanged-row stability: a customer whose batch record equals its  *)
(* active row in every tracked attribute gets no row inserted and no row   *)
(* updated; and a run that repeats the batch of the run before it leaves   *)
(* the table as that run left it.                                          *)
(***************************************************************************)
C7_UnchangedStable ==
    [][RunStep
        => /\ \A k \in 1..Len(new_data') :
                UnchangedKey(new_data'[k], table)
                  => /\ RowsOf(table', new_data'[k].customer_id)
                            = RowsOf(table, new_data'[k].customer_id)
                     /\ \A i \in RowsOf(table, new_data'[k].customer_id) :
                            table'[i] = table[i]
           /\ (result = "returned" /\ new_data' = new_data) => table' = table]_vars

(***************************************************************************)
(* C8.  New-key insertion: a batch record whose customer_id has no row in  *)
(* the table leaves exactly one row of that customer after the run: the    *)
(* source attributes, is_active = true, effective_start_date = run date,   *)
(* effective_end_date = 9999-12-31.                                        *)
(***************************************************************************)
C8_NewKeyInserted ==
    [][RunStep
        => \A k \in 1..Len(new_data') :
             RowsOf(table, new_data'[k].customer_id) = {}
               => \E m \in 1..Len(table') :
                    /\ RowsOf(table', new_data'[k].customer_id) = {m}
                    /\ table'[m] = Opened(new_data'[k], today')]_vars

(***************************************************************************)
(* C9.  A non-empty batch in which every record equals the active row of   *)
(* its customer in the tracked attributes gives an empty changeset, leaves *)
(* the table unchanged and does not invoke the merge primitive.            *)
(***************************************************************************)
C9_AllUnchangedSkipsMerge ==
    [][(/\ RunStep
        /\ new_data' # <<>>
        /\ \A k \in 1..Len(new_data') : UnchangedKey(new_data'[k], table))
        => /\ final_changes' = <<>>
           /\ table' = table
           /\ ~MergeCalled(trace')]_vars

(***************************************************************************)
(* C10.  Worked scenario: the table holds one row, customer 1 (Alice,      *)
(* orders = 2, active since 2024-01-01, every tracked attribute non-null); *)
(* the run of 2024-06-01 gets customer 1 with orders = 3 and the new       *)
(* customer 2.  The changeset is the closed row of customer 1, the new     *)
(* active row of customer 1 and the new active row of customer 2; the      *)
(* closed row replaces the stored row in place, so the table then holds    *)
(* 3 rows, 2 of them active.                                               *)
(***************************************************************************)
ScenarioTable ==
    << Row(Some(1), Some("Alice"), Some("Smith"), Some("alice@example.com"),
           Some("555"), Some(2), Some(2),
           Some(20240101), Some(Sentinel), Some(TRUE)) >>

ScenarioBatch ==
    << SrcRow(Some(1), Some("Alice"), Some("Smith"), Some("alice@example.com"),
              Some("555"), Some(3), Some(3)),
       SrcRow(Some(2), Some("Bob"), Some("Jones"), Some("bob@example.com"),
              Some("556"), Some(1), Some(1)) >>

ScenarioChangeset ==
    << Closed(ScenarioTable[1], 20240601),
       Opened(ScenarioBatch[1], 20240601),
       Opened(ScenarioBatch[2], 20240601) >>

ScenarioRun ==
    /\ RunStep
    /\ table = ScenarioTable
    /\ new_data' = ScenarioBatch
    /\ today' = 20240601

\* C10, as the code runs it: the changeset of three rows, then 3 rows stored,
\* 2 of them active
C10_Scenario ==
    [][ScenarioRun
        => /\ final_changes' = ScenarioChangeset
           /\ table' = ScenarioChangeset
           /\ Len(table') = 3
           /\ ActiveCount(table') = 2]_vars

\* C10 as first stated: the same changeset, then 4 rows stored, 2 of them
\* active
C10_Scenario_FourRows ==
    [][ScenarioRun
        => /\ final_changes' = ScenarioChangeset
           /\ Len(table') = 4
           /\ ActiveCount(table') = 2]_vars

\* the scenario of C10 has run
C10_Witness ==
    /\ new_data = ScenarioBatch
    /\ final_changes = ScenarioChangeset
    /\ today = 20240601
    /\ result = "returned"
    /\ Len(table) = 3
    /\ table[1] = Closed(ScenarioTable[1], 20240601)
(***************************************************************************)
(* C11.  Validity-interval continuity: after every run the versions of     *)
(* each customer form a chain: no two of them overlap, every version but   *)
(* the first starts on the effective_end_date of another version of the    *)
(* customer, and the first version starts on the date of the run that      *)
(* introduced the customer.                                                *)
(***************************************************************************)
StartOf(r) == r.effective_start_date[1]

EndOf(r) == r.effective_end_date[1]

\* the earliest effective_start_date among the rows of customer id
FirstStart(tbl, id) ==
    CHOOSE d \in {StartOf(tbl[i]) : i \in RowsOf(tbl, id)} :
        \A i \in RowsOf(tbl, id) : d <= StartOf(tbl[i])

C11_IntervalContinuity ==
    [][RunStep
        => \A id \in KeysOf(table') :
             /\ \A i, j \in RowsOf(table', id) :
                    i # j => \/ EndOf(table'[i]) <= StartOf(table'[j])
                             \/ EndOf(table'[j]) <= StartOf(table'[i])
             /\ \A i \in RowsOf(table', id) :
                    \/ StartOf(table'[i]) = FirstStart(table', id)
                    \/ \E j \in RowsOf(table', id) \ {i} :
                          EndOf(table'[j]) = StartOf(table'[i])
             /\ FirstStart(table', id) =
                    IF id \in KeysOf(table) THEN FirstStart(table, id)
                    ELSE today']_vars
(***************************************************************************)
(* C12.  Flag/sentinel agreement: in every reachable state every row of    *)
(* the table has is_active = true exactly when its effective_end_date is   *)
(* 9999-12-31.                                                             *)
(***************************************************************************)
C12_FlagSentinelAgreement ==
    \A i \in 1..Len(table) :
        IsActive(table[i]) <=> table[i].effective_end_date = Some(Sentinel)

\* a table that holds an open version and a closed one
C12_Witness ==
    /\ \E i \in 1..Len(table) : IsActive(table[i])
    /\ \E i \in 1..Len(table) :
          /\ table[i].is_active = Some(FALSE)
          /\ table[i].effective_end_date = Some(today)

(***************************************************************************)
(* C13.  Setup error: a run that finds no Delta table at the path raises   *)
(* before any data movement: the source extract is not fetched, no merge   *)
(* is executed, the crawler is not triggered and the table is untouched.   *)
(***************************************************************************)
Called(tr, step) == \E k \in 1..Len(tr) : tr[k] = step

C13_MissingTableRaises ==
    [][(runs' = runs + 1 /\ ~tableExists)
        => /\ result' = "raised"
           /\ ~Called(trace', "collect_customer_data")
           /\ ~Called(trace', "merge")
           /\ ~Called(trace', "run_glue_crawler")
           /\ table' = table
           /\ tableExists' = tableExists]_vars

\* a run was attempted while the table did not exist
C13_Witness ==
    /\ runs > 0
    /\ ~tableExists
    /\ result = "raised"
    /\ trace = <<"isDeltaTable">>
(***************************************************************************)
(* C18.  No staleness guard: when a batch record is older (updated_at)     *)
(* than the active row of its customer and differs from it in a tracked    *)
(* attribute, the run closes that active row and the stale record becomes  *)
(* the new active version.                                                 *)
(***************************************************************************)
Stale(s, r) ==
    /\ s.updated_at # Null
    /\ r.updated_at # Null
    /\ s.updated_at[1] < r.updated_at[1]

C18_StaleRecordSupersedes ==
    [][RunStep
        => \A k \in 1..Len(new_data') :
             \A i \in ActiveRowsOf(table, new_data'[k].customer_id) :
                (Stale(new_data'[k], table[i])
                 /\ TrackedDiffer(new_data'[k], table[i]))
                => /\ Len(table') >= Len(table)
                   /\ table'[i] = Closed(table[i], today')
                   /\ \E j \in 1..Len(table') :
                         table'[j] = Opened(new_data'[k], today')]_vars

(***************************************************************************)
(* C19.  Ordering within one run: the crawler is triggered only after the  *)
(* merge has executed; a run with an empty batch or a missing table never  *)
(* triggers it; every run that gets past both exits executes the merge     *)
(* exactly once, also with an empty changeset, and the table changes in    *)
(* no run that did not execute the merge.                                  *)
(***************************************************************************)
Positions(tr, step) == {k \in 1..Len(tr) : tr[k] = step}

C19_MergeThenCrawler ==
    [][runs' = runs + 1
        => /\ \A c \in Positions(trace', "run_glue_crawler") :
                 \E m \in Positions(trace', "merge") : m < c
           /\ (~tableExists \/ new_data' = <<>>)
                 => Positions(trace', "run_glue_crawler") = {}
           /\ (tableExists /\ new_data' # <<>>)
                 => Cardinality(Positions(trace', "merge")) = 1
           /\ table' # table
                 => Cardinality(Positions(trace', "merge")) = 1
           /\ Cardinality(Positions(trace', "merge")) <= 1
           /\ Cardinality(Positions(trace', "run_glue_crawler")) <= 1]_vars

\* a run whose changeset was empty executed the merge and then the crawler
C19_Witness ==
    /\ runs > 0
    /\ new_data # <<>>
    /\ final_changes = <<>>
    /\ trace = <<"isDeltaTable", "collect_customer_data", "merge",
                 "run_glue_crawler">>

(***************************************************************************)
(* C20.  No deletes: no step removes a row: the number of rows never       *)
(* decreases and every customer_id of the table before a run is in the     *)
(* table after it.                                                         *)
(***************************************************************************)
C20_NoDeletes ==
    [][/\ Len(table') >= Len(table)
       /\ KeysOf(table) \subseteq KeysOf(table')]_vars

\* a run that updated a stored row in place and appended another
C20_Witness ==
    /\ result = "returned"
    /\ Len(final_changes) = 2
    /\ Len(table) = 2
    /\ \E i \in 1..Len(table) : table[i].is_active = Some(FALSE)
JoinPairs(orders, tbl, date) ==
    {p \in (1..Len(orders)) \X (1..Len(tbl)) :
        /\ orders[p[1]].pickup_date # Null
        /\ orders[p[1]].pickup_date[1] > date * 100
        /\ IsActive(tbl[p[2]])
        /\ orders[p[1]].customer_id # Null
        /\ orders[p[1]].customer_id = tbl[p[2]].customer_id}

C16_ExtractIsTheJoin ==
    [][(extracts' = extracts + 1 /\ result' = "returned")
        => LET pairs == JoinPairs(Orders, table, today')
               expected == {Projection(table[p[2]], Orders[p[1]]) : p \in pairs}
               stored == {future_orders'[k] : k \in 1..Len(future_orders')}
           IN \A x \in expected \cup stored :
                 Cardinality({k \in 1..Len(future_orders') : future_orders'[k] = x})
                 = Cardinality({p \in pairs :
                                  Projection(table[p[2]], Orders[p[1]]) = x})]_vars

\* a successful run replaced rows that the join no longer yields
C16_Witness ==
    /\ extracts > 1
    /\ result = "returned"
    /\ query_outcome = "ok"
    /\ future_orders # <<>>
    /\ \E k \in 1..Len(overwritten) :
          \A j \in 1..Len(future_orders) : future_orders[j] # overwritten[k]

(***************************************************************************)
(* C17.  Failure atomicity: when the upstream query fails, the run raises, *)
(* the extract table holds exactly what it held before and the crawler is  *)
(* not triggered.                                                          *)
(***************************************************************************)
C17_QueryFailureAtomic ==
    [][(extracts' = extracts + 1
        /\ query_outcome' \in {"fails_at_load", "fails_at_save"})
        => /\ future_orders' = future_orders
           /\ result' = "raised"
           /\ ~Called(trace', "run_glue_crawler")
           /\ crawler' = "not_called"]_vars

\* the query failed while the save ran over a table that held rows
C17_Witness ==
    /\ query_outcome = "fails_at_save"
    /\ result = "raised"
    /\ future_orders # <<>>
(***************************************************************************)
(* C15.  Concurrent runs are unsafe: when two runs have both read the      *)
(* table before either merged, and both carry a new version of the same    *)
(* customer with different tracked attributes, then after both merges,     *)
(* each one atomic commit, the customer has two active rows.               *)
(***************************************************************************)
\* the active versions of customer id in the changeset a run built from
\* what it read
NewVersions(run, id) ==
    LET changes == FinalChanges(run.new_data, run.delta_snapshot, run.date)
    IN {changes[k] : k \in {j \in 1..Len(changes) :
                               /\ changes[j].customer_id = id
                               /\ IsActive(changes[j])}}

\* both drivers are done, and d merged after e without having seen e's merge
Raced(d, e) ==
    /\ d # e
    /\ sessions[d].pc = "done" /\ sessions[d].result = "returned"
    /\ sessions[e].pc = "done" /\ sessions[e].result = "returned"
    /\ sessions[d].overtaken

====
